---- MODULE Spec2Model ----
(***************************************************************************)
(* Model of mimic/canned_responses/loadbalancer.py: the in-memory cache of *)
(* load balancers (CLB_Cache.lbs, CLB_Cache.meta), the status state        *)
(* machine _verify_and_update_lb_state and the handlers that call it.      *)
(*                                                                         *)
(* Every handler receives the current time as an argument; the model keeps *)
(* a clock that only moves forward and passes it to every call.      *)
(* An uncaught Python exception (KeyError, TypeError/ValueError) ends the  *)
(* handler without a response; the mutations made before it are kept.     *)
(***************************************************************************)
EXTENDS Integers, Sequences, FiniteSets, TLC

\* ------------------------------------------------------------------ inputs
LbIds == {"lb1"}
Tenants == {"t1", "t2"}
Addresses == {"10.0.0.1", "10.0.0.2"}
Ports == {80}
\* the values randrange(999999) may return, cut down to two
NodeIds == {1, 2}
\* the timestamps the caller passes, in seconds
Times == {0, 4, 5, 10, 3605, 3610}
\* the timestamps of the runs that exercise the node lists
NodeRunTimes == {0, 5}
\* the longest node list stored on one load balancer
MaxNodes == 2

\* ------------------------------------------------------- program constants
DefaultDuration == 10
DeletedGrace == 3600

FlagKeys == {"lb_building", "lb_pending_update", "lb_pending_delete", "lb_error_state"}

\* A metadata value: given with a number of seconds, or empty (None / "").
Given(n) == [given |-> TRUE, secs |-> n]
NotGiven == [given |-> FALSE, secs |-> 0]

\* the metadata of a creation request, as the key -> value map that
\* add_load_balancer builds from the list
MetaWith(keys, v) == [k \in keys |-> v]
Metadatas ==
    { MetaWith({}, NotGiven),
      MetaWith({"lb_building"}, Given(5)),
      MetaWith({"lb_building"}, NotGiven),
      MetaWith({"lb_pending_update"}, Given(5)),
      MetaWith({"lb_pending_update"}, NotGiven),
      MetaWith({"lb_pending_delete"}, Given(5)),
      MetaWith({"lb_pending_delete"}, NotGiven),
      MetaWith({"lb_error_state"}, NotGiven),
      MetaWith({"lb_pending_update", "lb_pending_delete"}, Given(5)),
      MetaWith({"lb_pending_update", "lb_error_state"}, Given(5)),
      MetaWith({"lb_building", "lb_pending_delete"}, Given(5)),
      MetaWith(FlagKeys, Given(5)) }
\* the metadata of the runs that exercise the node lists
NodeRunMetadatas ==
    { MetaWith({}, NotGiven),
      MetaWith({"lb_pending_update"}, Given(5)),
      MetaWith({"lb_pending_delete"}, Given(5)) }

\* node definitions as sent by the caller
\* every address as an ENABLED node, and one address as a DISABLED node too
NodeDefs ==
    [address : Addresses, port : Ports, condition : {"ENABLED"}]
        \cup [address : {"10.0.0.1"}, port : Ports, condition : {"DISABLED"}]
RECURSIVE SeqsUpTo(_, _)
SeqsUpTo(S, n) ==
    IF n = 0 THEN { <<>> }
    ELSE LET shorter == SeqsUpTo(S, n - 1)
         IN shorter \cup { Append(s, x) : s \in { t \in shorter : Len(t) = n - 1 }, x \in S }
\* a request carries at most two nodes
NodeLists == SeqsUpTo(NodeDefs, 2)
IdLists == SeqsUpTo(NodeIds, 2)
\* the requests of the runs that exercise the life cycle: one node at most,
\* always the same one
OneNode == [address |-> "10.0.0.1", port |-> 80, condition |-> "ENABLED"]
FewNodeLists == { <<>>, << OneNode >> }
FewIdLists == { <<>>, << 1 >> }

\* ------------------------------------------------------------- time strings
\* datetime.utcfromtimestamp(t).strftime(fmt): hours, minutes, seconds
TimeString(t) == << t \div 3600, (t % 3600) \div 60, t % 60 >>
\* datetime.strptime(s, fmt), back to seconds
ParseTime(s) == s[1] * 3600 + s[2] * 60 + s[3]

None == "None"
\* Python's `x or d` on a status string / None
OrElse(x, d) == IF x = None THEN d ELSE x
\* Python's `v or 10` on a metadata value
OrDefault(v) == IF v.given THEN v ELSE Given(DefaultDuration)

\* mimic.util.helper.set_resource_status: `status` once time_delta seconds
\* have passed since updated_time, else None
SetResourceStatus(updated_time, time_delta, status, current_timestamp) ==
    IF current_timestamp >= ParseTime(updated_time) + time_delta.secs
    THEN status ELSE None

\* ------------------------------------------------------------------- cache
\* c = [lbs, meta, fault]: cache.lbs, cache.meta and whether an exception
\* has been raised
Remove(f, k) == [x \in (DOMAIN f) \ {k} |-> f[x]]
Put(f, k, v) == [x \in (DOMAIN f) \cup {k} |-> IF x = k THEN v ELSE f[x]]
Raise(c) == [c EXCEPT !.fault = TRUE]

\* ------------------------------------------- _verify_and_update_lb_state
VerifyBuildStamped(c, lb_id, now) ==
    LET m == [c.meta[lb_id] EXCEPT !["lb_building"] = OrDefault(@)]
        st == SetResourceStatus(c.lbs[lb_id].updated, m["lb_building"], "ACTIVE", now)
    IN [c EXCEPT !.meta[lb_id] = m,
                 !.lbs[lb_id].status = OrElse(st, "BUILD"),
                 !.lbs[lb_id].updated = TimeString(now)]

VerifyBuild(c, lb_id, now) ==
    LET m == [c.meta[lb_id] EXCEPT !["lb_building"] = OrDefault(@)]
        st == SetResourceStatus(c.lbs[lb_id].updated, m["lb_building"], "ACTIVE", now)
    IN [c EXCEPT !.meta[lb_id] = m,
                 !.lbs[lb_id].status = OrElse(st, "BUILD")]

\* the three `if`s of the ACTIVE branch written as if / elif / elif
ActiveFlagStatusFirstWins(m) ==
    IF "lb_pending_update" \in DOMAIN m THEN "PENDING-UPDATE"
    ELSE IF "lb_pending_delete" \in DOMAIN m THEN "PENDING-DELETE"
    ELSE IF "lb_error_state" \in DOMAIN m THEN "ERROR"
    ELSE "ACTIVE"

\* the three consecutive `if`s of the ACTIVE branch: each overwrites the last
ActiveFlagStatus(m) ==
    LET s1 == IF "lb_pending_update" \in DOMAIN m THEN "PENDING-UPDATE" ELSE "ACTIVE"
        s2 == IF "lb_pending_delete" \in DOMAIN m THEN "PENDING-DELETE" ELSE s1
    IN IF "lb_error_state" \in DOMAIN m THEN "ERROR" ELSE s2

VerifyActive(c, lb_id, now) ==
    [c EXCEPT !.lbs[lb_id].status = ActiveFlagStatus(c.meta[lb_id]),
              !.lbs[lb_id].updated = TimeString(now)]

VerifyPendingUpdate(c, lb_id, now) ==
    IF "lb_pending_update" \in DOMAIN c.meta[lb_id]
    THEN IF ~c.meta[lb_id]["lb_pending_update"].given
         THEN Raise(c)   \* no `or 10` here: the empty value reaches the helper
         ELSE [c EXCEPT !.lbs[lb_id].status =
                  OrElse(SetResourceStatus(c.lbs[lb_id].updated,
                                           c.meta[lb_id]["lb_pending_update"],
                                           "ACTIVE", now),
                         "PENDING-UPDATE")]
    ELSE c

\* the PENDING-DELETE branch with the "DELETED" argument left out
VerifyPendingDeleteToActive(c, lb_id, now) ==
    LET m == [c.meta[lb_id] EXCEPT !["lb_pending_delete"] = OrDefault(@)]
        st == SetResourceStatus(c.lbs[lb_id].updated, m["lb_pending_delete"], "ACTIVE", now)
    IN [c EXCEPT !.meta[lb_id] = m,
                 !.lbs[lb_id].status = OrElse(st, "PENDING-DELETE"),
                 !.lbs[lb_id].updated = TimeString(now)]

VerifyPendingDelete(c, lb_id, now) ==
    LET m == [c.meta[lb_id] EXCEPT !["lb_pending_delete"] = OrDefault(@)]
        st == SetResourceStatus(c.lbs[lb_id].updated, m["lb_pending_delete"], "DELETED", now)
    IN [c EXCEPT !.meta[lb_id] = m,
                 !.lbs[lb_id].status = OrElse(st, "PENDING-DELETE"),
                 !.lbs[lb_id].updated = TimeString(now)]

\* the DELETED branch without the `del cache.lbs[lb_id]`
VerifyDeletedNoPurge(c, lb_id, now) ==
    [c EXCEPT !.lbs[lb_id].status =
        OrElse(SetResourceStatus(c.lbs[lb_id].updated, Given(DeletedGrace),
                                 "DELETING-NOW", now),
               "DELETED")]

VerifyDeleted(c, lb_id, now) ==
    LET st == OrElse(SetResourceStatus(c.lbs[lb_id].updated, Given(DeletedGrace),
                                       "DELETING-NOW", now),
                     "DELETED")
    IN IF st = "DELETING-NOW"
       THEN [c EXCEPT !.lbs = Remove(c.lbs, lb_id)]
       ELSE [c EXCEPT !.lbs[lb_id].status = st]

VerifyAndUpdateLbState(c, lb_id, set_state, now) ==
    LET status == c.lbs[lb_id].status
    IN IF status = "BUILD" THEN VerifyBuild(c, lb_id, now)
       ELSE IF status = "ACTIVE" /\ set_state THEN VerifyActive(c, lb_id, now)
       ELSE IF status = "PENDING-UPDATE" THEN VerifyPendingUpdate(c, lb_id, now)
       ELSE IF status = "PENDING-DELETE" THEN VerifyPendingDelete(c, lb_id, now)
       ELSE IF status = "DELETED" THEN VerifyDeleted(c, lb_id, now)
       ELSE c

\* ------------------------------------------------------------ responses
\* what a handler leaves behind: the cache, the response code, the kind of
\* payload, the payload (a sequence, empty when the body carries nothing the
\* model keeps), the status the handler last read from the record
Resp(c, code, payload, body, status) ==
    [lbs |-> c.lbs, meta |-> c.meta, code |-> code, payload |-> payload,
     body |-> body, status |-> status, forced |-> FALSE, fault |-> FALSE]
\* marks a response of a call that ran the reconcile with set_state=True on
\* a record it found ACTIVE
Forced(r) == [r EXCEPT !.forced = TRUE]
ForcedIf(b, r) == IF b THEN Forced(r) ELSE r
NotFoundResponse(c, what) == Resp(c, 404, what, <<>>, "none")
InvalidResource(c, code, status) == Resp(c, code, "invalid", <<>>, status)
\* an exception leaves the handler: no response, the cache as it was then
Uncaught(c) == [Resp(c, 0, "exception", <<>>, "none") EXCEPT !.fault = TRUE]

\* ------------------------------------------------------ record building
FormatNodesOnLb(node_list, ids) ==
    [i \in 1..Len(node_list) |->
        [address |-> node_list[i].address,
         condition |-> node_list[i].condition,
         port |-> node_list[i].port,
         id |-> ids[i],
         status |-> "ONLINE"]]

\* lb.get("nodes"): absent and empty are both falsy
NodesTruthy(lb) == lb.hasNodes /\ lb.nodes # <<>>
\* len(lb.get("nodes", []))
NodesLen(lb) == IF lb.hasNodes THEN Len(lb.nodes) ELSE 0

\* the fields of the example record that the handlers read or change; name,
\* protocol, port, algorithm, virtualIps and the rest are set once and never
\* read by this module
LoadBalancerExample(node_list, ids, status, current_time) ==
    LET lb == [status |-> status, created |-> current_time, updated |-> current_time,
               hasNodes |-> FALSE, nodes |-> <<>>]
    IN IF node_list # <<>>
       THEN [lb EXCEPT !.hasNodes = TRUE, !.nodes = FormatNodesOnLb(node_list, ids)]
       ELSE lb

\* _lb_without_tenant: the stored record without tenant_id and nodeCount
LbWithoutTenant(lb) ==
    [status |-> lb.status, created |-> lb.created, updated |-> lb.updated,
     hasNodes |-> lb.hasNodes, nodes |-> lb.nodes]

\* _prep_for_list keeps status, created, updated, nodeCount (and constants)
PrepForList(lbs, ids) ==
    { [id |-> i, status |-> lbs[i].status, created |-> lbs[i].created,
       updated |-> lbs[i].updated, nodeCount |-> lbs[i].nodeCount] : i \in ids }

\* the initial status, were any behaviour flag to put the record in BUILD
InitialStatusAnyFlag(metadata) ==
    IF DOMAIN metadata # {} THEN "BUILD" ELSE "ACTIVE"

\* lines 68 and 79-80: BUILD when the key lb_building is in the metadata
InitialStatus(metadata) ==
    IF "lb_building" \in DOMAIN metadata THEN "BUILD" ELSE "ACTIVE"

AddLoadBalancer(c, tenant_id, node_list, ids, metadata, lb_id, now) ==
    LET status == InitialStatus(metadata)
        ex == LoadBalancerExample(node_list, ids, status, TimeString(now))
        lb == [status |-> ex.status, created |-> ex.created, updated |-> ex.updated,
               hasNodes |-> ex.hasNodes, nodes |-> ex.nodes,
               tenant_id |-> tenant_id, nodeCount |-> NodesLen(ex)]
        c1 == [c EXCEPT !.meta = Put(c.meta, lb_id, metadata),
                        !.lbs = Put(c.lbs, lb_id, lb)]
    IN Resp(c1, 202, "loadBalancer", << LbWithoutTenant(lb) >>, status)

\* ---------------------------------------------------------------- handlers
\* a get whose reconcile is allowed to leave ACTIVE
GetLoadBalancersForcing(c, lb_id, now) ==
    IF lb_id \in DOMAIN c.lbs
    THEN LET c1 == VerifyAndUpdateLbState(c, lb_id, TRUE, now)
         IN IF c1.fault \/ lb_id \notin DOMAIN c1.lbs
            THEN Uncaught(c1)
            ELSE Resp(c1, 200, "loadBalancer", << LbWithoutTenant(c1.lbs[lb_id]) >>,
                      c1.lbs[lb_id].status)
    ELSE NotFoundResponse(c, "loadbalancer")

GetLoadBalancers(c, lb_id, now) ==
    IF lb_id \in DOMAIN c.lbs
    THEN LET c1 == VerifyAndUpdateLbState(c, lb_id, FALSE, now)
         IN IF c1.fault \/ lb_id \notin DOMAIN c1.lbs
            THEN Uncaught(c1)   \* line 103 reads cache.lbs[lb_id] after the purge
            ELSE Resp(c1, 200, "loadBalancer", << LbWithoutTenant(c1.lbs[lb_id]) >>,
                      c1.lbs[lb_id].status)
    ELSE NotFoundResponse(c, "loadbalancer")

\* the test of line 118, which answers 400 before any reconcile
DelImmutableNever(lb) == FALSE
DelImmutable(lb) == lb.status = "PENDING-DELETE"

\* the statuses of lines 126-128 with ERROR left out
DeletesNowUnlessError(status) == status \in {"ACTIVE", "PENDING-UPDATE"}

\* lines 126-128: the statuses in which delete removes the record at once
DeletesNow(status) == status \in {"ACTIVE", "ERROR", "PENDING-UPDATE"}

DelLoadBalancer(c, lb_id, now) ==
    IF lb_id \in DOMAIN c.lbs
    THEN IF DelImmutable(c.lbs[lb_id])
         THEN InvalidResource(c, 400, c.lbs[lb_id].status)
         ELSE LET c1 == VerifyAndUpdateLbState(c, lb_id, TRUE, now)
              IN IF c1.fault \/ lb_id \notin DOMAIN c1.lbs
                 THEN Uncaught(c1)   \* line 126 reads cache.lbs[lb_id]
                 ELSE LET status == c1.lbs[lb_id].status
                      IN ForcedIf(c.lbs[lb_id].status = "ACTIVE",
                         IF DeletesNow(status)
                         THEN Resp([c1 EXCEPT !.lbs = Remove(c1.lbs, lb_id)],
                                   202, "empty", <<>>, status)
                         ELSE IF status = "PENDING-DELETE"
                         THEN Resp(c1, 202, "empty", <<>>, status)
                         ELSE IF status = "DELETED"
                         THEN InvalidResource(
                                  VerifyAndUpdateLbState(c1, lb_id, TRUE, now), 400, status)
                         ELSE NotFoundResponse(c1, "loadbalancer"))
    ELSE NotFoundResponse(c, "loadbalancer")

\* the loop of list_load_balancers over the tenant's ids
RECURSIVE ListLoop(_, _, _)
ListLoop(c, ids, now) ==
    IF ids = {} THEN c
    ELSE LET each == CHOOSE i \in ids : TRUE
             c1 == VerifyAndUpdateLbState(c, each, FALSE, now)
         IN IF c1.fault THEN c1
            ELSE IF each \notin DOMAIN c1.lbs THEN Raise(c1)   \* line 156
            ELSE ListLoop(c1, ids \ {each}, now)

ListLoadBalancers(c, tenant_id, now) ==
    LET response == { k \in DOMAIN c.lbs : c.lbs[k].tenant_id = tenant_id }
        c1 == ListLoop(c, response, now)
    IN IF c1.fault THEN Uncaught(c1)
       ELSE Resp(c1, 200, "loadBalancers",
                 << PrepForList(c1.lbs, { k \in DOMAIN c1.lbs :
                                            c1.lbs[k].tenant_id = tenant_id }) >>,
                 "none")

\* only the two pending statuses
ImmutableOnlyPending(lb) == lb.status \in {"PENDING-UPDATE", "PENDING-DELETE"}

\* lines 172 and 232: the node list can be changed only while ACTIVE
Immutable(lb) == lb.status # "ACTIVE"

\* a comparison of whole nodes, condition included
DuplicateDetectedWholeNode(existing, node_list) ==
    \E i \in 1..Len(existing), j \in 1..Len(node_list) :
        /\ existing[i].address = node_list[j].address
        /\ existing[i].port = node_list[j].port
        /\ existing[i].condition = node_list[j].condition

\* lines 181-188: some existing node has the address and port of a new one
DuplicateDetected(existing, node_list) ==
    \E i \in 1..Len(existing), j \in 1..Len(node_list) :
        /\ existing[i].address = node_list[j].address
        /\ existing[i].port = node_list[j].port

AddNode(c, node_list, ids, lb_id, now) ==
    IF lb_id \in DOMAIN c.lbs
    THEN LET c1 == VerifyAndUpdateLbState(c, lb_id, FALSE, now)
         IN IF c1.fault \/ lb_id \notin DOMAIN c1.lbs
            THEN Uncaught(c1)   \* line 172
            ELSE IF Immutable(c1.lbs[lb_id])
            THEN InvalidResource(c1, 422, c1.lbs[lb_id].status)
            ELSE LET nodes == FormatNodesOnLb(node_list, ids)
                     lb == c1.lbs[lb_id]
                 IN IF NodesTruthy(lb)
                    THEN IF DuplicateDetected(lb.nodes, node_list)
                         THEN InvalidResource(c1, 413, lb.status)
                         ELSE Resp([c1 EXCEPT !.lbs[lb_id].nodes = lb.nodes \o nodes],
                                   200, "nodes", << nodes >>, lb.status)
                    ELSE LET c2 == [c1 EXCEPT !.lbs[lb_id].hasNodes = TRUE,
                                              !.lbs[lb_id].nodes = nodes,
                                              !.lbs[lb_id].nodeCount = Len(nodes)]
                             c3 == VerifyAndUpdateLbState(c2, lb_id, TRUE, now)
                         IN Forced(Resp(c3, 200, "nodes", << nodes >>,
                                        c3.lbs[lb_id].status))
    ELSE NotFoundResponse(c, "loadbalancer")

\* index of the first node with this id, 0 when there is none
FirstWithId(nodes, node_id) ==
    IF \E i \in 1..Len(nodes) : nodes[i].id = node_id
    THEN CHOOSE i \in 1..Len(nodes) :
            /\ nodes[i].id = node_id
            /\ \A j \in 1..(i - 1) : nodes[j].id # node_id
    ELSE 0

RemoveAt(s, i) == SubSeq(s, 1, i - 1) \o SubSeq(s, i + 1, Len(s))

GetNodes(c, lb_id, node_id, now) ==
    IF lb_id \in DOMAIN c.lbs
    THEN LET c1 == VerifyAndUpdateLbState(c, lb_id, FALSE, now)
         IN IF c1.fault \/ lb_id \notin DOMAIN c1.lbs
            THEN Uncaught(c1)   \* line 208
            ELSE LET lb == c1.lbs[lb_id]
                 IN IF lb.status = "DELETED"
                    THEN InvalidResource(c1, 410, lb.status)
                    ELSE IF NodesTruthy(lb) /\ FirstWithId(lb.nodes, node_id) # 0
                    THEN Resp(c1, 200, "node",
                              << lb.nodes[FirstWithId(lb.nodes, node_id)] >>, lb.status)
                    ELSE Resp(c1, 404, "node", <<>>, lb.status)
    ELSE NotFoundResponse(c, "loadbalancer")

DeleteNode(c, lb_id, node_id, now) ==
    IF lb_id \in DOMAIN c.lbs
    THEN LET c1 == VerifyAndUpdateLbState(c, lb_id, FALSE, now)
         IN IF c1.fault \/ lb_id \notin DOMAIN c1.lbs
            THEN Uncaught(c1)   \* line 232
            ELSE IF Immutable(c1.lbs[lb_id])
            THEN InvalidResource(c1, 422, c1.lbs[lb_id].status)
            ELSE LET c2 == VerifyAndUpdateLbState(c1, lb_id, TRUE, now)
                     lb == c2.lbs[lb_id]
                     index == FirstWithId(lb.nodes, node_id)
                 IN IF NodesTruthy(lb) /\ index # 0
                    THEN LET rest == RemoveAt(lb.nodes, index)
                             lb2 == IF rest = <<>>
                                    THEN [lb EXCEPT !.hasNodes = FALSE, !.nodes = <<>>,
                                                    !.nodeCount = 0]
                                    ELSE [lb EXCEPT !.nodes = rest,
                                                    !.nodeCount = Len(rest)]
                         IN Forced(Resp([c2 EXCEPT !.lbs[lb_id] = lb2], 202, "empty",
                                        <<>>, lb.status))
                    ELSE Forced(Resp(c2, 404, "node", <<>>, lb.status))
    ELSE NotFoundResponse(c, "loadbalancer")

ListNodes(c, lb_id, now) ==
    IF lb_id \in DOMAIN c.lbs
    THEN LET c1 == VerifyAndUpdateLbState(c, lb_id, FALSE, now)
         IN IF c1.fault THEN Uncaught(c1)
            ELSE IF lb_id \notin DOMAIN c1.lbs
            THEN NotFoundResponse(c1, "loadbalancer")
            ELSE LET lb == c1.lbs[lb_id]
                 IN IF lb.status = "DELETED"
                    THEN InvalidResource(c1, 410, lb.status)
                    ELSE Resp(c1, 200, "nodes",
                              << IF NodesTruthy(lb) THEN lb.nodes ELSE <<>> >>, lb.status)
    ELSE NotFoundResponse(c, "loadbalancer")

\* ------------------------------------------------------------ the machine
VARIABLES
    lbs,              \* cache.lbs: lb id -> record
    meta,             \* cache.meta: lb id -> flag -> value
    clock,            \* the time the caller passes to the next call
    last,             \* the call just made at this time and its response
    prev,             \* the response of the get before it, when both are gets
                      \* of one id at one time
    pendingDeleteAt   \* lb id -> time at which a delete call moved the stored
                      \* record to PENDING-DELETE, -1 when none did

vars == << lbs, meta, clock, last, prev, pendingDeleteAt >>

Cache == [lbs |-> lbs, meta |-> meta, fault |-> FALSE]
StatusOf(lb_id) == IF lb_id \in DOMAIN lbs THEN lbs[lb_id].status ELSE "none"

NoCall == [op |-> "none", id |-> "none", code |-> 0, payload |-> "none",
           body |-> <<>>, status |-> "none", pre |-> "none", forced |-> FALSE,
           fault |-> FALSE]
NoPrev == [code |-> 0, status |-> "none", body |-> <<>>, fault |-> FALSE, seen |-> FALSE]

\* a call of handler `op` on lb_id that answered r
Answer(op, lb_id, r) ==
    /\ lbs' = r.lbs
    /\ meta' = r.meta
    /\ last' = [op |-> op, id |-> lb_id, code |-> r.code, payload |-> r.payload,
                body |-> r.body, status |-> r.status, pre |-> StatusOf(lb_id),
                forced |-> r.forced, fault |-> r.fault]
    /\ prev' = IF op = "get" /\ last.op = "get" /\ last.id = lb_id
               THEN [code |-> last.code, status |-> last.status, body |-> last.body,
                     fault |-> last.fault, seen |-> TRUE]
               ELSE NoPrev
    /\ UNCHANGED clock

Init ==
    /\ lbs = << >>
    /\ meta = << >>
    /\ clock = 0
    /\ last = NoCall
    /\ prev = NoPrev
    /\ pendingDeleteAt = [i \in LbIds |-> -1]

Advance(times) ==
    /\ \E t \in times : t > clock /\ clock' = t
    /\ last' = NoCall
    /\ prev' = NoPrev
    /\ UNCHANGED << lbs, meta, pendingDeleteAt >>

Create(nodeLists, idLists, metadatas) ==
    \E lb_id \in LbIds, tenant_id \in Tenants, node_list \in nodeLists,
       ids \in idLists, metadata \in metadatas :
        /\ lb_id \notin DOMAIN lbs   \* the caller draws an id that is not in use
        /\ Len(ids) = Len(node_list)
        /\ Answer("create", lb_id,
                  AddLoadBalancer(Cache, tenant_id, node_list, ids, metadata, lb_id, clock))
        /\ pendingDeleteAt' = [pendingDeleteAt EXCEPT ![lb_id] = -1]

Get ==
    \E lb_id \in LbIds :
        /\ Answer("get", lb_id, GetLoadBalancers(Cache, lb_id, clock))
        /\ UNCHANGED pendingDeleteAt

Delete ==
    \E lb_id \in LbIds :
        LET r == DelLoadBalancer(Cache, lb_id, clock)
        IN /\ Answer("delete", lb_id, r)
           /\ pendingDeleteAt' =
                IF /\ StatusOf(lb_id) # "PENDING-DELETE"
                   /\ lb_id \in DOMAIN r.lbs
                   /\ r.lbs[lb_id].status = "PENDING-DELETE"
                THEN [pendingDeleteAt EXCEPT ![lb_id] = clock]
                ELSE pendingDeleteAt

List ==
    \E tenant_id \in Tenants :
        /\ Answer("list", "none", ListLoadBalancers(Cache, tenant_id, clock))
        /\ UNCHANGED pendingDeleteAt

AddNodes(nodeLists, idLists) ==
    \E lb_id \in LbIds, node_list \in nodeLists, ids \in idLists :
        /\ Len(ids) = Len(node_list)
        /\ lb_id \in DOMAIN lbs => Len(lbs[lb_id].nodes) + Len(node_list) <= MaxNodes
        /\ Answer("addNodes", lb_id, AddNode(Cache, node_list, ids, lb_id, clock))
        /\ UNCHANGED pendingDeleteAt

GetNode ==
    \E lb_id \in LbIds, node_id \in NodeIds :
        /\ Answer("getNode", lb_id, GetNodes(Cache, lb_id, node_id, clock))
        /\ UNCHANGED pendingDeleteAt

DelNode ==
    \E lb_id \in LbIds, node_id \in NodeIds :
        /\ Answer("deleteNode", lb_id, DeleteNode(Cache, lb_id, node_id, clock))
        /\ UNCHANGED pendingDeleteAt

ListNodesCall ==
    \E lb_id \in LbIds :
        /\ Answer("listNodes", lb_id, ListNodes(Cache, lb_id, clock))
        /\ UNCHANGED pendingDeleteAt

\* the life cycle: every flag combination and time, short node lists
Next ==
    \/ Advance(Times)
    \/ Create(FewNodeLists, FewIdLists, Metadatas)
    \/ Get
    \/ Delete
    \/ List
    \/ AddNodes(FewNodeLists, FewIdLists)
    \/ GetNode
    \/ DelNode
    \/ ListNodesCall

Spec == Init /\ [][Next]_vars

\* the node lists: every node list, few flags and times
NextNodes ==
    \/ Advance(NodeRunTimes)
    \/ Create(NodeLists, IdLists, NodeRunMetadatas)
    \/ Get
    \/ Delete
    \/ List
    \/ AddNodes(NodeLists, IdLists)
    \/ GetNode
    \/ DelNode
    \/ ListNodesCall

SpecNodes == Init /\ [][NextNodes]_vars

\* ================================================================= claims
Stored == DOMAIN lbs
\* the duration a flag stands for once `or 10` has been applied
Duration(lb_id, flag) == OrDefault(meta[lb_id][flag]).secs
UpdatedAt(lb_id) == ParseTime(lbs[lb_id].updated)
CreatedAt(lb_id) == ParseTime(lbs[lb_id].created)

\* C1: every stored load balancer's nodeCount is the length of its node list
\* (0 when it has no nodes field), after any create, addNodes and deleteNode.
NodeCountMatches ==
    \A i \in Stored : lbs[i].nodeCount = NodesLen(lbs[i])

\* C2: no two nodes stored on one load balancer have the same address and
\* port.
NoDuplicateNodes ==
    \A i \in Stored :
        \A j, k \in 1..Len(lbs[i].nodes) :
            j # k => \/ lbs[i].nodes[j].address # lbs[i].nodes[k].address
                     \/ lbs[i].nodes[j].port # lbs[i].nodes[k].port

\* C3 as stated: the status of every stored load balancer is one of BUILD,
\* ACTIVE, PENDING-UPDATE, PENDING-DELETE, DELETED.
StatusInFive ==
    \A i \in Stored :
        lbs[i].status \in {"BUILD", "ACTIVE", "PENDING-UPDATE", "PENDING-DELETE", "DELETED"}

\* C3 as amended: the status of every stored load balancer is one of BUILD,
\* ACTIVE, PENDING-UPDATE, PENDING-DELETE, DELETED, ERROR.
StatusInSix ==
    \A i \in Stored :
        lbs[i].status \in {"BUILD", "ACTIVE", "PENDING-UPDATE", "PENDING-DELETE",
                           "DELETED", "ERROR"}

\* C3 witness: a load balancer created with lb_error_state is stored in ERROR
\* after a call reconciled it with set_state=True
ErrorStored ==
    \E i \in Stored :
        /\ lbs[i].status = "ERROR"
        /\ "lb_error_state" \in DOMAIN meta[i]
        /\ last.id = i /\ last.forced

FirstFlagWins(m) ==
    IF "lb_pending_update" \in DOMAIN m THEN "PENDING-UPDATE"
    ELSE IF "lb_pending_delete" \in DOMAIN m THEN "PENDING-DELETE"
    ELSE IF "lb_error_state" \in DOMAIN m THEN "ERROR"
    ELSE "ACTIVE"
LastFlagWins(m) ==
    IF "lb_error_state" \in DOMAIN m THEN "ERROR"
    ELSE IF "lb_pending_delete" \in DOMAIN m THEN "PENDING-DELETE"
    ELSE IF "lb_pending_update" \in DOMAIN m THEN "PENDING-UPDATE"
    ELSE "ACTIVE"

\* C4 as stated: a reconcile with set_state=True of an ACTIVE load balancer
\* gives the status of the first flag present in the order lb_pending_update,
\* lb_pending_delete, lb_error_state.
ForcedStatusFirstFlag ==
    last.forced => last.status = FirstFlagWins(meta[last.id])

\* C4 as amended: a reconcile with set_state=True of an ACTIVE load balancer
\* gives the status of the last flag present in the order lb_pending_update,
\* lb_pending_delete, lb_error_state (lb_error_state wins over
\* lb_pending_delete, which wins over lb_pending_update).
ForcedStatusLastFlag ==
    last.forced => last.status = LastFlagWins(meta[last.id])

\* C4 witness: lb_pending_update and lb_pending_delete both present, no
\* lb_error_state, and the forced reconcile gave PENDING-DELETE
BothFlagsGavePendingDelete ==
    /\ last.forced
    /\ {"lb_pending_update", "lb_pending_delete"} \subseteq DOMAIN meta[last.id]
    /\ "lb_error_state" \notin DOMAIN meta[last.id]
    /\ last.status = "PENDING-DELETE"

\* a delete call on lb_id, stored as PENDING-DELETE, before the
\* lb_pending_delete duration has passed since its updated time
DeleteWhilePendingDelete(lb_id) ==
    /\ StatusOf(lb_id) = "PENDING-DELETE"
    /\ clock < UpdatedAt(lb_id) + Duration(lb_id, "lb_pending_delete")
    /\ last'.op = "delete"
    /\ last'.id = lb_id

\* C5 as stated: delete on a load balancer that is PENDING-DELETE, before its
\* duration has elapsed, returns an empty body with 202 and leaves it
\* PENDING-DELETE.
DeleteAgainAccepted ==
    [][\A i \in LbIds :
          DeleteWhilePendingDelete(i) =>
              /\ last'.code = 202
              /\ last'.payload = "empty"
              /\ StatusOf(i)' = "PENDING-DELETE"]_vars

\* C5 as amended: delete on a load balancer that is PENDING-DELETE, before
\* its duration has elapsed, returns the invalid-resource payload with 400
\* and leaves the record as it was, PENDING-DELETE.
DeleteAgainRefused ==
    [][\A i \in LbIds :
          DeleteWhilePendingDelete(i) =>
              /\ last'.code = 400
              /\ last'.payload = "invalid"
              /\ lbs' = lbs
              /\ meta' = meta]_vars

\* C5 witness: a delete has just answered 400 on a PENDING-DELETE load
\* balancer whose duration has not elapsed
DeleteRefusedEarly ==
    /\ last.op = "delete"
    /\ last.pre = "PENDING-DELETE"
    /\ last.code = 400
    /\ StatusOf(last.id) = "PENDING-DELETE"
    /\ clock < UpdatedAt(last.id) + Duration(last.id, "lb_pending_delete")

\* C6: when a delete call moved a load balancer to PENDING-DELETE at time t
\* and its lb_pending_delete duration is d, a get or delete at a time
\* >= t + d (and before the 3600 s of the DELETED state are over) finds it
\* DELETED.
DeletedAfterDuration ==
    \A i \in LbIds :
        ( /\ pendingDeleteAt[i] >= 0
          /\ last.id = i
          /\ last.op \in {"get", "delete"}
          /\ clock >= pendingDeleteAt[i] + Duration(i, "lb_pending_delete")
          /\ clock < pendingDeleteAt[i] + Duration(i, "lb_pending_delete") + DeletedGrace )
        => last.status = "DELETED"

\* C7: once a load balancer has been DELETED for 3600 s, every call ends
\* with a response, 404 for the calls that name its id and a list without it
\* for list, never with an exception.
PurgeAnswersNotFound ==
    [][\A i \in LbIds :
          ( /\ StatusOf(i) = "DELETED"
            /\ clock >= UpdatedAt(i) + DeletedGrace
            /\ last'.op # "none" )
          => /\ ~last'.fault
             /\ last'.id = i => last'.code = 404
             /\ last'.op = "list" => \A e \in last'.body[1] : e.id # i]_vars

\* C8: two consecutive get calls on one id at one time return the same code,
\* status and representation.
GetIdempotent ==
    (last.op = "get" /\ prev.seen) =>
        /\ last.fault = prev.fault
        /\ last.code = prev.code
        /\ last.status = prev.status
        /\ last.body = prev.body

\* the order BUILD < ACTIVE < {PENDING-UPDATE, PENDING-DELETE} < DELETED
Ranked == {"BUILD", "ACTIVE", "PENDING-UPDATE", "PENDING-DELETE", "DELETED"}
Rank(status) ==
    IF status = "BUILD" THEN 0
    ELSE IF status = "ACTIVE" THEN 1
    ELSE IF status = "DELETED" THEN 3
    ELSE 2
\* lb_id stays stored and its status moves backward in the order
MovesBackward(lb_id, statuses) ==
    /\ lb_id \in Stored
    /\ lb_id \in Stored'
    /\ lbs[lb_id].status \in statuses
    /\ lbs'[lb_id].status \in statuses
    /\ Rank(lbs'[lb_id].status) < Rank(lbs[lb_id].status)

\* C9 as stated: the status of a stored load balancer never moves backward
\* in the order BUILD < ACTIVE < {PENDING-UPDATE, PENDING-DELETE} < DELETED.
StatusNeverBackward ==
    [][\A i \in LbIds : ~MovesBackward(i, Ranked)]_vars

\* C9 as amended: the status of a stored load balancer moves backward in the
\* order BUILD < ACTIVE < {PENDING-UPDATE, PENDING-DELETE, ERROR} < DELETED
\* only from PENDING-UPDATE to ACTIVE, and only in a call made once the
\* lb_pending_update duration has passed since its updated time.
StatusBackwardOnlyFromPendingUpdate ==
    [][\A i \in LbIds :
          MovesBackward(i, Ranked \cup {"ERROR"}) =>
              /\ lbs[i].status = "PENDING-UPDATE"
              /\ lbs'[i].status = "ACTIVE"
              /\ clock >= UpdatedAt(i) + Duration(i, "lb_pending_update")]_vars

\* C9 witness: a get has just found a PENDING-UPDATE load balancer ACTIVE
PendingUpdateBackToActive ==
    /\ last.op = "get"
    /\ last.pre = "PENDING-UPDATE"
    /\ last.status = "ACTIVE"
    /\ StatusOf(last.id) = "ACTIVE"

\* C10: a load balancer created with lb_building = d at time t0 is BUILD at
\* every time < t0 + d, and is no longer BUILD after any call on it at a time
\* >= t0 + d, however many calls were made on it while it was BUILD.
BuildUntilDuration ==
    \A i \in Stored :
        "lb_building" \in DOMAIN meta[i] =>
            /\ clock < CreatedAt(i) + Duration(i, "lb_building")
                  => lbs[i].status = "BUILD"
            /\ (last.id = i /\ clock >= CreatedAt(i) + Duration(i, "lb_building"))
                  => lbs[i].status # "BUILD"

\* C10 witness: created at 0 with lb_building = 5, a get at 5 has just found
\* the BUILD load balancer ACTIVE
BuiltAtFive ==
    \E i \in Stored :
        /\ "lb_building" \in DOMAIN meta[i]
        /\ meta[i]["lb_building"] = Given(5)
        /\ CreatedAt(i) = 0
        /\ clock = 5
        /\ last.op = "get" /\ last.id = i
        /\ last.pre = "BUILD"
        /\ lbs[i].status = "ACTIVE"

\* C11: create stores the load balancer as BUILD exactly when the key
\* lb_building is among the metadata keys of the request, and as ACTIVE
\* otherwise, whatever other flags the request carries.
CreateStatusFromBuilding ==
    last.op = "create" =>
        /\ last.id \in Stored
        /\ last.code = 202
        /\ lbs[last.id].status = "BUILD" <=> "lb_building" \in DOMAIN meta[last.id]
        /\ lbs[last.id].status = "ACTIVE" <=> "lb_building" \notin DOMAIN meta[last.id]

\* C11 witness: a create with lb_pending_update and lb_error_state, without
\* lb_building, has just stored an ACTIVE load balancer
CreatedActiveWithOtherFlags ==
    /\ last.op = "create"
    /\ {"lb_pending_update", "lb_error_state"} \subseteq DOMAIN meta[last.id]
    /\ "lb_building" \notin DOMAIN meta[last.id]
    /\ lbs[last.id].status = "ACTIVE"

\* an incoming node has the address and port of a node stored on lb
SharesAddressAndPort(lb, node_list) ==
    \E k \in 1..Len(node_list), m \in 1..Len(lb.nodes) :
        /\ node_list[k].address = lb.nodes[m].address
        /\ node_list[k].port = lb.nodes[m].port

\* C12: addNodes on a load balancer that is ACTIVE once reconciled, with an
\* incoming list holding a node whose address and port are those of a stored
\* node, answers 413 whatever the conditions and the other incoming nodes are,
\* and leaves nodes, nodeCount and status as they were.
DuplicateNodeRefused ==
    \A i \in Stored :
        LET c1 == VerifyAndUpdateLbState(Cache, i, FALSE, clock)
        IN (/\ ~c1.fault
            /\ i \in DOMAIN c1.lbs
            /\ c1.lbs[i].status = "ACTIVE")
           => \A node_list \in NodeLists :
                SharesAddressAndPort(c1.lbs[i], node_list)
                => \A ids \in IdLists :
                     Len(ids) = Len(node_list)
                     => LET r == AddNode(Cache, node_list, ids, i, clock)
                        IN /\ r.code = 413
                           /\ r.payload = "invalid"
                           /\ r.lbs[i].nodes = c1.lbs[i].nodes
                           /\ r.lbs[i].nodeCount = c1.lbs[i].nodeCount
                           /\ r.lbs[i].status = "ACTIVE"

DuplicateRefusedDespiteCondition ==
    /\ last.op = "addNodes"
    /\ last.code = 413
    /\ last.id \in Stored
    /\ lbs[last.id].status = "ACTIVE"
    /\ Len(lbs[last.id].nodes) = 1
    /\ lbs[last.id].nodes[1].condition = "DISABLED"

\* C13: addNodes or deleteNode on a stored load balancer that is not ACTIVE
\* once the call has reconciled it answers 422 and leaves nodes and nodeCount
\* as they were.
NotActiveRefused ==
    [][\A i \in Stored :
         (last'.op \in {"addNodes", "deleteNode"} /\ last'.id = i)
         => LET c1 == VerifyAndUpdateLbState(Cache, i, FALSE, clock)
            IN (/\ ~c1.fault
                /\ i \in DOMAIN c1.lbs
                /\ c1.lbs[i].status # "ACTIVE")
               => /\ last'.code = 422
                  /\ last'.payload = "invalid"
                  /\ i \in DOMAIN lbs'
                  /\ lbs'[i].hasNodes = lbs[i].hasNodes
                  /\ lbs'[i].nodes = lbs[i].nodes
                  /\ lbs'[i].nodeCount = lbs[i].nodeCount]_vars

DeleteNodeRefusedWhilePendingUpdate ==
    /\ last.op = "deleteNode"
    /\ last.code = 422
    /\ last.id \in Stored
    /\ lbs[last.id].status = "PENDING-UPDATE"

\* C14: delete answers 404 only for an id that is not stored when it is called;
\* for a stored id, in any status, it answers (empty, 202) or an invalid
\* payload with 400.
DeleteNotFoundOnlyWhenAbsent ==
    [][\A i \in LbIds :
         (last'.op = "delete" /\ last'.id = i)
         => /\ last'.code = 404 => i \notin Stored
            /\ i \in Stored =>
                 \/ last'.code = 202 /\ last'.payload = "empty"
                 \/ last'.code = 400 /\ last'.payload = "invalid"]_vars

\* C15: a stored load balancer either has no nodes field or has a non-empty
\* node list: no call stores an empty list, and a deleteNode that removes the
\* last node drops the field and sets nodeCount to 0.
NoEmptyNodeList ==
    /\ \A i \in Stored : lbs[i].hasNodes => lbs[i].nodes # << >>
    /\ \A i \in Stored :
         (last.op = "deleteNode" /\ last.id = i /\ last.code = 202
            /\ lbs[i].nodes = << >>)
         => ~lbs[i].hasNodes /\ lbs[i].nodeCount = 0

\* C16: the updated time of a stored load balancer changes only in a step in
\* which its status changes.
UpdatedOnlyOnStatusChange ==
    [][\A i \in Stored :
         (i \in DOMAIN lbs' /\ lbs'[i].updated # lbs[i].updated)
         => lbs'[i].status # lbs[i].status]_vars

\* the duration flag that a reconcile of a record in this status evaluates
DurationFlags == {"lb_building", "lb_pending_update", "lb_pending_delete"}
StatusEvaluating(flag) ==
    CASE flag = "lb_building" -> "BUILD"
      [] flag = "lb_pending_update" -> "PENDING-UPDATE"
      [] flag = "lb_pending_delete" -> "PENDING-DELETE"

\* in this step a call on i reconciles it and evaluates `flag`, which is
\* present without a value (a delete of a PENDING-DELETE record answers
\* before any reconcile)
EvaluatesEmpty(i, flag) ==
    /\ i \in Stored
    /\ last'.id = i
    /\ last'.op \notin {"none", "create"}
    /\ ~(last'.op = "delete" /\ lbs[i].status = "PENDING-DELETE")
    /\ lbs[i].status = StatusEvaluating(flag)
    /\ flag \in DOMAIN meta[i]
    /\ ~meta[i][flag].given

DefaultedIn(i, flag) ==
    EvaluatesEmpty(i, flag) => ~last'.fault /\ meta'[i][flag] = Given(DefaultDuration)

\* C17: a duration flag present without a value is evaluated as 10 seconds by
\* the first reconcile that reads it, which writes 10 back into the metadata,
\* for lb_building, lb_pending_update and lb_pending_delete alike; a
\* PENDING-UPDATE load balancer whose flag has no value is ACTIVE again 10
\* seconds after its last update, and no call on it fails.
DefaultDurationWrittenBack ==
    [][\A i \in LbIds :
         /\ \A flag \in DurationFlags : DefaultedIn(i, flag)
         /\ (EvaluatesEmpty(i, "lb_pending_update") /\ last'.op = "get")
            => /\ last'.code = 200
               /\ last'.status = IF clock >= UpdatedAt(i) + DefaultDuration
                                 THEN "ACTIVE" ELSE "PENDING-UPDATE"]_vars

Observing == {"get", "list", "getNode", "listNodes"}

\* C19: get, list, getNode and listNodes change neither the status nor the
\* updated time of a load balancer that is ACTIVE when they are called,
\* whatever flags it carries; an ACTIVE load balancer stops being ACTIVE only
\* in a delete, a deleteNode, or an addNodes on a load balancer without nodes.
ObservingKeepsActive ==
    [][\A i \in Stored :
         lbs[i].status = "ACTIVE"
         => /\ last'.op \in Observing
               => /\ i \in DOMAIN lbs'
                  /\ lbs'[i].status = "ACTIVE"
                  /\ lbs'[i].updated = lbs[i].updated
            /\ (i \notin DOMAIN lbs' \/ lbs'[i].status # "ACTIVE")
               => \/ last'.op \in {"delete", "deleteNode"} /\ last'.id = i
                  \/ last'.op = "addNodes" /\ last'.id = i /\ ~NodesTruthy(lbs[i])]_vars

GetLeftFlaggedActive ==
    /\ last.op = "get"
    /\ last.pre = "ACTIVE"
    /\ last.code = 200
    /\ lbs[last.id].status = "ACTIVE"
    /\ {"lb_pending_update", "lb_error_state"} \subseteq DOMAIN meta[last.id]
    /\ clock > UpdatedAt(last.id)

\* C20: a deleteNode that answers 404 because the node id is not on an ACTIVE
\* load balancer leaves its status, updated time, nodes and nodeCount as they
\* were before the call, whatever flags the load balancer carries.
NodeNotFoundChangesNothing ==
    [][\A i \in Stored :
         (/\ lbs[i].status = "ACTIVE"
          /\ last'.op = "deleteNode"
          /\ last'.id = i
          /\ last'.code = 404
          /\ last'.payload = "node")
         => /\ i \in DOMAIN lbs'
            /\ lbs'[i].status = lbs[i].status
            /\ lbs'[i].updated = lbs[i].updated
            /\ lbs'[i].hasNodes = lbs[i].hasNodes
            /\ lbs'[i].nodes = lbs[i].nodes
            /\ lbs'[i].nodeCount = lbs[i].nodeCount]_vars
====
